---- MODULE Spec2Model ----
(***************************************************************************)
(* Model of routes_visualization.py, the "H3 Route Explorer" Streamlit     *)
(* script.  The script is re-executed top to bottom for every user event   *)
(* and for every st.rerun(); st.session_state (origin, target) and the     *)
(* value of the map widget (last_clicked) survive between executions.      *)
(* One action of the model is one user event together with the script      *)
(* execution it starts, up to the end of the script or to st.rerun().       *)
(***************************************************************************)
EXTENDS Integers, Sequences, FiniteSets

\* ------------------------------------------------------------------------
\* Bounds of the model
\* ------------------------------------------------------------------------
\* Largest number of records of the route table.
MaxRoutes == 1

\* A select attempt counter saturates here.
MaxAttempts == 2

\* Largest longitude and latitude of the grid of click points used to check
\* the point resolution.
MaxLon == 9
MaxLat == 5

\* ------------------------------------------------------------------------
\* Values
\* ------------------------------------------------------------------------
\* Python's None in a session_state slot.  Cell ids are integer tokens >= 0.
None == -1

\* Cell ids of the abundance table.  Id 0 is the falsy token of the id
\* domain (0, or the empty string), ids 1 and 2 are truthy.
Cells == 0 .. 2

\* value_wintering / value_breeding of a cell.
Values == {0, 1}

\* Python truthiness of a session_state slot: None, 0 and "" are falsy.
Truthy(v) == v # None /\ v # 0

\* Payload of the "path" column of a route record.
Paths == {1}

\* The absent last_clicked (None) and the absent route_row (None); a click
\* point is <<lon, lat>>, a route_row is the sequence of the rows found.
NoClick == << >>
NoRoute == << >>

\* ------------------------------------------------------------------------
\* Cell table (load_cells) and its geometry
\* ------------------------------------------------------------------------
\* The polygons of the cells, counter-clockwise rings of <<lon, lat>>:
\* cells 0 and 1 are the two triangles of the square [0,4]x[0,4] split along
\* its diagonal, cell 2 is the square [4,8]x[0,4].
Geometry(c) ==
    IF c = 0 THEN << <<0, 0>>, <<4, 0>>, <<0, 4>> >>
    ELSE IF c = 1 THEN << <<4, 0>>, <<4, 4>>, <<0, 4>> >>
    ELSE << <<4, 0>>, <<8, 0>>, <<8, 4>>, <<4, 4>> >>

\* Click points offered to the user: inside cell 0, inside cell 1 (and in
\* the bounding box of cell 0), inside cell 2, on the edge shared by cells
\* 0 and 1, outside every cell.
Points == { <<1, 1>>, <<3, 3>>, <<6, 2>>, <<2, 2>>, <<9, 2>> }

\* Every point of the grid, for the check of the point resolution.
GridPoints == { << x, y >> : x \in 0 .. MaxLon, y \in 0 .. MaxLat }

CellTables == [Cells -> [value_wintering : Values, value_breeding : Values]]

RouteRecords == [departure_cell : Cells, destination_cell : Cells, path : Paths]

RECURSIVE SeqsUpTo(_, _)
SeqsUpTo(S, n) ==
    IF n = 0 THEN { << >> }
    ELSE LET shorter == SeqsUpTo(S, n - 1)
         IN  shorter \cup { Append(s, r) : s \in shorter, r \in S }

RouteTables == SeqsUpTo(RouteRecords, MaxRoutes)

VARIABLES
    df,            \* the cell table: cell id -> its value columns
    routes_idx,    \* the route table indexed by (departure_cell, destination_cell)
    origin,        \* st.session_state.origin
    target,        \* st.session_state.target
    show_grid,     \* the "Show H3 grid" checkbox
    map_key,       \* the map the st_folium widget instance was rendered with
    last_clicked,  \* the widget's stored last_clicked value
    route_row,     \* route_row of the latest script execution
    warning,       \* the st.warning of the latest script execution
    details,       \* what the "Route details" panel shows
    pc,            \* "idle": waiting for a user event; "rerun": st.rerun() pending
    event,         \* history: the latest user event
    last_action,   \* history: the latest action
    pre_origin,    \* history: origin before the latest user event
    pre_target,    \* history: target before the latest user event
    attempts       \* history: select attempts made for the click the widget holds

vars == << df, routes_idx, origin, target, show_grid, map_key, last_clicked,
           route_row, warning, details, pc, event, last_action, pre_origin,
           pre_target, attempts >>

data == << df, routes_idx >>

\* ------------------------------------------------------------------------
\* Role classification (lines 61-62)
\* ------------------------------------------------------------------------
\* Mutant of departure_cells: the threshold is not strict.
departure_cells_not_strict == { c \in DOMAIN df : df[c].value_wintering >= 0 }

departure_cells == { c \in DOMAIN df : df[c].value_wintering > 0 }

destination_cells == { c \in DOMAIN df : df[c].value_breeding > 0 }

\* ------------------------------------------------------------------------
\* Point resolution (lines 172-176)
\* ------------------------------------------------------------------------
Min(S) == CHOOSE x \in S : \A y \in S : x <= y
Max(S) == CHOOSE x \in S : \A y \in S : x >= y

\* The envelope <<minx, miny, maxx, maxy>> of a ring.
bounds(ring) ==
    LET xs == { ring[i][1] : i \in DOMAIN ring }
        ys == { ring[i][2] : i \in DOMAIN ring }
    IN  << Min(xs), Min(ys), Max(xs), Max(ys) >>

\* gdf.sindex (line 42): the spatial index holds the envelope of every
\* cell's geometry, built once.
sindex == [ c \in Cells |-> bounds(Geometry(c)) ]

\* df.sindex.intersection(point.bounds): the cells whose envelope meets the
\* point (the envelope's border included).
sindex_intersection(point) ==
    { c \in Cells :
        LET b == sindex[c]
        IN  /\ b[1] <= point[1] /\ point[1] <= b[3]
            /\ b[2] <= point[2] /\ point[2] <= b[4] }

\* shapely's polygon.contains(point): the point lies in the interior of the
\* polygon; a point of the boundary is not contained.  For a convex
\* counter-clockwise ring: strictly left of every edge.
contains(ring, point) ==
    \A i \in DOMAIN ring :
        LET a == ring[i]
            b == ring[IF i = Len(ring) THEN 1 ELSE i + 1]
        IN  (b[1] - a[1]) * (point[2] - a[2])
              - (b[2] - a[2]) * (point[1] - a[1]) > 0

\* Mutant of hit: the exact containment filter is left out.
hit_coarse(point) == sindex_intersection(point)

\* candidates[candidates.contains(point)]: the cell ids of the rows hit.
hit(point) == { c \in sindex_intersection(point) : contains(Geometry(c), point) }

\* The rows hit, for every click point: the cell table and its index are
\* built once (lines 37-43) and never change.
hits == [ point \in Points \cup GridPoints |-> hit(point) ]

\* ------------------------------------------------------------------------
\* Route table (lines 46-51) and the route lookup (lines 153-159)
\* ------------------------------------------------------------------------
\* df.set_index(["departure_cell", "destination_cell"]): the index entry of
\* a row is the ordered pair of its two key columns.
IndexKey(r) == << r.departure_cell, r.destination_cell >>

\* key in routes_idx.index
KeyInIndex(key) == \E i \in DOMAIN routes_idx : IndexKey(routes_idx[i]) = key

\* routes_idx.loc[key]: the rows whose index entry is key, in table order.
Loc(key) ==
    LET Match(r) == IndexKey(r) = key
    IN  SelectSeq(routes_idx, Match)

\* Lines 153-157: route_row stays None unless both slots are truthy and the
\* ordered pair is in the index.
RouteRow(o, t) ==
    IF Truthy(o) /\ Truthy(t)
    THEN IF KeyInIndex(<< o, t >>) THEN Loc(<< o, t >>) ELSE NoRoute
    ELSE NoRoute

\* ------------------------------------------------------------------------
\* The map handed to st_folium (lines 105-159)
\* ------------------------------------------------------------------------
\* draw_h3 (lines 133-144) draws the cell when the table has its geometry.
draw_h3(cell) == IF cell \in DOMAIN df THEN cell ELSE None

\* What the map built by one execution holds: the grid layer when the
\* checkbox is set, a selected cell when its slot is truthy (lines 147-150),
\* the polyline when a route was found (line 159).  The barriers are the
\* same in every execution.
MapContent(grid, o, t, row) ==
    [ grid     |-> grid,
      green    |-> IF Truthy(o) THEN draw_h3(o) ELSE None,
      red      |-> IF Truthy(t) THEN draw_h3(t) ELSE None,
      polyline |-> row ]

\* ------------------------------------------------------------------------
\* The click handler's selection step (lines 181-193)
\* ------------------------------------------------------------------------
Selection(o, t, w, r) == [ origin |-> o, target |-> t, warning |-> w, rerun |-> r ]

\* Mutants of select: the handler as plausible slips would have written it.
\* The target branch is tried whenever the origin branch did not accept
\* (if ... and ...: / elif ... and ...:).
select_no_elif(cell, o, t) ==
    IF o = None /\ cell \in departure_cells
    THEN Selection(cell, t, "none", TRUE)
    ELSE IF t = None /\ cell \in destination_cells
         THEN Selection(o, cell, "none", TRUE)
         ELSE Selection(o, t, "none", FALSE)

\* The origin branch does not test that the slot is still None.
select_overwrite_origin(cell, o, t) ==
    IF cell \in departure_cells /\ cell # o
    THEN Selection(cell, t, "none", TRUE)
    ELSE IF t = None
         THEN IF cell \in destination_cells
              THEN Selection(o, cell, "none", TRUE)
              ELSE Selection(o, t, "destination", FALSE)
         ELSE Selection(o, t, "none", FALSE)

\* The origin branch tests the wrong role set.
select_origin_by_destination(cell, o, t) ==
    IF o = None
    THEN IF cell \in destination_cells
         THEN Selection(cell, t, "none", TRUE)
         ELSE Selection(o, t, "departure", FALSE)
    ELSE IF t = None
         THEN IF cell \in destination_cells
              THEN Selection(o, cell, "none", TRUE)
              ELSE Selection(o, t, "destination", FALSE)
         ELSE Selection(o, t, "none", FALSE)

\* The target branch also asks for a departure cell.
select_target_needs_departure(cell, o, t) ==
    IF o = None
    THEN IF cell \in departure_cells
         THEN Selection(cell, t, "none", TRUE)
         ELSE Selection(o, t, "departure", FALSE)
    ELSE IF t = None
         THEN IF cell \in destination_cells /\ cell \in departure_cells
              THEN Selection(o, cell, "none", TRUE)
              ELSE Selection(o, t, "destination", FALSE)
         ELSE Selection(o, t, "none", FALSE)

\* The origin branch accepts every cell.
select_accept_any(cell, o, t) ==
    IF o = None
    THEN Selection(cell, t, "none", TRUE)
    ELSE IF t = None
         THEN IF cell \in destination_cells
              THEN Selection(o, cell, "none", TRUE)
              ELSE Selection(o, t, "destination", FALSE)
         ELSE Selection(o, t, "none", FALSE)

\* A click on a destination cell replaces the target of a complete pair.
select_retarget(cell, o, t) ==
    IF o = None
    THEN IF cell \in departure_cells
         THEN Selection(cell, t, "none", TRUE)
         ELSE Selection(o, t, "departure", FALSE)
    ELSE IF t = None \/ (cell \in destination_cells /\ cell # t)
         THEN IF cell \in destination_cells
              THEN Selection(o, cell, "none", TRUE)
              ELSE Selection(o, t, "destination", FALSE)
         ELSE Selection(o, t, "none", FALSE)

\* Mutant of select: with the origin set, any cell becomes the target.
select_target_any_cell(cell, o, t) ==
    IF o = None
    THEN IF cell \in departure_cells
         THEN Selection(cell, t, "none", TRUE)
         ELSE Selection(o, t, "departure", FALSE)
    ELSE IF t = None
         THEN Selection(o, cell, "none", TRUE)
         ELSE Selection(o, t, "none", FALSE)

\* Mutant of select: a rejected click requests a rerun as well.
select_rerun_on_reject(cell, o, t) ==
    IF o = None
    THEN IF cell \in departure_cells
         THEN Selection(cell, t, "none", TRUE)
         ELSE Selection(o, t, "departure", TRUE)
    ELSE IF t = None
         THEN IF cell \in destination_cells
              THEN Selection(o, cell, "none", TRUE)
              ELSE Selection(o, t, "destination", TRUE)
         ELSE Selection(o, t, "none", FALSE)

\* Lines 181-193.
select(cell, o, t) ==
    IF o = None
    THEN IF cell \in departure_cells
         THEN Selection(cell, t, "none", TRUE)
         ELSE Selection(o, t, "departure", FALSE)
    ELSE IF t = None
         THEN IF cell \in destination_cells
              THEN Selection(o, cell, "none", TRUE)
              ELSE Selection(o, t, "destination", FALSE)
         ELSE Selection(o, t, "none", FALSE)

\* Mutants of miss: a click that hits no cell warns; it clears the selection.
miss_warns(o, t) == Selection(o, t, "departure", FALSE)
miss_clears(o, t) == Selection(None, None, "none", FALSE)

\* Line 178: a click that hits no cell (hit.empty) has no branch: nothing is
\* assigned, nothing is shown, the execution goes on to the details panel.
miss(o, t) == Selection(o, t, "none", FALSE)

\* Lines 203-206: the details panel.  A route_row of one row is a Series and
\* is shown as a one-row table; a route_row of several rows is a DataFrame,
\* which has no to_frame, so line 204 raises.
DetailsPanel(row) ==
    IF row = NoRoute THEN "prompt"
    ELSE IF Len(row) = 1 THEN "dataframe"
    ELSE "exception"

\* Mutant of reset: only the target slot is cleared.
reset_target_only(o, t) == [ origin |-> o, target |-> None ]

\* Lines 96-97: the slots after Reset.
reset(o, t) == [ origin |-> None, target |-> None ]

\* ------------------------------------------------------------------------
\* The map widget (line 164)
\* ------------------------------------------------------------------------
\* st_folium(m): no key is passed, so the widget instance is identified by
\* the map it is given.  Rendered with the map its stored value belongs to,
\* it returns that value again (last_clicked is the latest click, a read
\* does not consume it); rendered with another map it is a new instance and
\* returns no click.
st_folium(content, stored_key, stored_click) ==
    IF content = stored_key THEN stored_click ELSE NoClick

\* An execution that ends without rendering the widget (st.rerun() at line
\* 98 comes before line 164): Streamlit keeps the stored value only of the
\* widgets an execution rendered.
unrendered(stored_click) == NoClick

\* One more select attempt for the click the widget holds.
Bump(n) == IF n < MaxAttempts THEN n + 1 ELSE n

\* ------------------------------------------------------------------------
\* One execution of the script from line 102 on, with the widget holding
\* stored_click (for which held select attempts were made) and the checkbox
\* at grid.  The execution ends at st.rerun() (lines 184, 191) or at the
\* end of the script (line 206).
\* ------------------------------------------------------------------------
RunScript(stored_click, held, grid) ==
    LET row     == RouteRow(origin, target)
        content == MapContent(grid, origin, target, row)
        clicked == st_folium(content, map_key, stored_click)
    IN  /\ show_grid' = grid
        /\ map_key' = content
        /\ last_clicked' = clicked
        /\ route_row' = row
        /\ IF clicked # NoClick /\ hits[clicked] # {}
           THEN \E cell \in hits[clicked] :
                    LET s == select(cell, origin, target)
                    IN  /\ origin' = s.origin
                        /\ target' = s.target
                        /\ warning' = s.warning
                        /\ attempts' = Bump(held)
                        /\ pc' = IF s.rerun THEN "rerun" ELSE "idle"
                        /\ details' = IF s.rerun THEN details ELSE DetailsPanel(row)
           ELSE /\ origin' = miss(origin, target).origin
                /\ target' = miss(origin, target).target
                /\ warning' = miss(origin, target).warning
                /\ attempts' = IF clicked = NoClick THEN 0 ELSE held
                /\ pc' = "idle"
                /\ details' = DetailsPanel(row)

History(e, a) ==
    /\ event' = e
    /\ last_action' = a
    /\ pre_origin' = origin
    /\ pre_target' = target

\* ------------------------------------------------------------------------
\* Initial state: the session's first execution has finished (lines 57-70:
\* tables loaded, both slots None; checkbox at its default, line 100).
\* ------------------------------------------------------------------------
InitSession ==
    /\ origin = None
    /\ target = None
    /\ show_grid = TRUE
    /\ map_key = MapContent(TRUE, None, None, NoRoute)
    /\ last_clicked = NoClick
    /\ route_row = NoRoute
    /\ warning = "none"
    /\ details = "prompt"
    /\ pc = "idle"
    /\ event = "init"
    /\ last_action = "Init"
    /\ pre_origin = None
    /\ pre_target = None
    /\ attempts = 0

Init ==
    /\ df \in CellTables
    /\ routes_idx \in RouteTables
    /\ InitSession

\* ------------------------------------------------------------------------
\* Actions
\* ------------------------------------------------------------------------
\* The user clicks the map at point: the widget stores the click and the
\* script is executed.
Click(point) ==
    /\ pc = "idle"
    /\ RunScript(point, 0, show_grid)
    /\ History("click", "Click")
    /\ UNCHANGED data

\* The user presses Reset: the execution reaches line 95 with the button
\* set, clears both slots and stops at st.rerun() (line 98).
Reset ==
    /\ pc = "idle"
    /\ origin' = reset(origin, target).origin
    /\ target' = reset(origin, target).target
    /\ pc' = "rerun"
    /\ last_clicked' = unrendered(last_clicked)
    /\ attempts' = 0
    /\ History("reset", "Reset")
    /\ UNCHANGED << data, show_grid, map_key, route_row, warning, details >>

\* The user toggles "Show H3 grid" (line 100): the script is executed.
ToggleGrid ==
    /\ pc = "idle"
    /\ RunScript(last_clicked, attempts, ~show_grid)
    /\ History("toggle", "ToggleGrid")
    /\ UNCHANGED data

\* The execution requested by st.rerun(): no new user event.
Rerun ==
    /\ pc = "rerun"
    /\ RunScript(last_clicked, attempts, show_grid)
    /\ last_action' = "Rerun"
    /\ UNCHANGED << data, event, pre_origin, pre_target >>

Next ==
    \/ \E point \in Points : Click(point)
    \/ Reset
    \/ ToggleGrid
    \/ Rerun

Spec == Init /\ [][Next]_vars

\* ------------------------------------------------------------------------
\* Role classification over signed values: the value columns are drawn
\* from RoleValues (negative, zero, positive), the route table is empty.
\* ------------------------------------------------------------------------
RoleValues == {-1, 0, 1}

RoleTables == [Cells -> [value_wintering : RoleValues, value_breeding : RoleValues]]

InitRoles ==
    /\ df \in RoleTables
    /\ routes_idx = << >>
    /\ InitSession

SpecRoles == InitRoles /\ [][Next]_vars

\* ------------------------------------------------------------------------
\* Point resolution over the whole grid of click points: every cell is a
\* departure cell, so that the cell a click in Empty resolved to shows as
\* origin; the route table is empty.
\* ------------------------------------------------------------------------
InitResolve ==
    /\ df \in { t \in CellTables : \A c \in Cells : t[c].value_wintering = 1 }
    /\ routes_idx = << >>
    /\ InitSession

NextResolve ==
    \/ \E point \in GridPoints : Click(point)
    \/ Reset
    \/ ToggleGrid
    \/ Rerun

SpecResolve == InitResolve /\ [][NextResolve]_vars

\* ------------------------------------------------------------------------
\* Selection states (spec section 4.4)
\* ------------------------------------------------------------------------
IsEmpty(o, t) == o = None /\ t = None
IsOriginSet(o, t) == o # None /\ t = None
IsComplete(o, t) == o # None /\ t # None

\* The cells the latest click resolved to (at most one: the cells do not
\* overlap).
Clicked == IF last_clicked = NoClick THEN {} ELSE hits[last_clicked]

\* ------------------------------------------------------------------------
\* C1: in every reachable state the selection is Empty, OriginSet or
\* Complete: each slot holds None or a cell id, and target is never set
\* while origin is None.
\* ------------------------------------------------------------------------
C1_SelectionShape ==
    /\ origin \in Cells \cup {None}
    /\ target \in Cells \cup {None}
    /\ origin = None => target = None

\* A Complete state entered by a click on a cell that is no departure cell.
C1_Witness ==
    /\ last_action = "Click"
    /\ IsOriginSet(pre_origin, pre_target)
    /\ IsComplete(origin, target)
    /\ target \notin departure_cells

\* ------------------------------------------------------------------------
\* C2: a slot that holds a cell id never changes to another cell id; it
\* changes only to None, and only by Reset.
\* ------------------------------------------------------------------------
C2_SlotsNeverOverwritten ==
    [][ /\ origin # None =>
             \/ origin' = origin
             \/ origin' = None /\ last_action' = "Reset"
        /\ target # None =>
             \/ target' = target
             \/ target' = None /\ last_action' = "Reset" ]_vars

\* A click on another departure cell, made while origin was set, left
\* origin as it was.
C2_Witness ==
    /\ last_action = "Click"
    /\ pre_origin # None
    /\ origin = pre_origin
    /\ \E cell \in Clicked : cell \in departure_cells /\ cell # pre_origin

\* ------------------------------------------------------------------------
\* C3: a click made in Empty that resolves to a departure cell c leaves the
\* selection OriginSet with origin = c and target None.
\* ------------------------------------------------------------------------
C3_EmptyAcceptsDeparture ==
    (last_action = "Click" /\ IsEmpty(pre_origin, pre_target)) =>
        \A c \in Clicked :
            c \in departure_cells =>
                origin = c /\ target = None /\ warning = "none"

\* Such a click, on a cell that is no destination cell.
C3_Witness ==
    /\ last_action = "Click"
    /\ IsEmpty(pre_origin, pre_target)
    /\ \E c \in Clicked : c \in departure_cells /\ c \notin destination_cells
    /\ IsOriginSet(origin, target)

\* ------------------------------------------------------------------------
\* C4: a click made in OriginSet that resolves to a destination cell c
\* leaves the selection Complete with target = c and origin as it was,
\* whether or not c is a departure cell.
\* ------------------------------------------------------------------------
C4_OriginSetAcceptsDestination ==
    (last_action = "Click" /\ IsOriginSet(pre_origin, pre_target)) =>
        \A c \in Clicked :
            c \in destination_cells =>
                origin = pre_origin /\ target = c /\ warning = "none"

\* Such a click, on a cell that is no departure cell and is not the origin.
C4_Witness ==
    /\ last_action = "Click"
    /\ IsOriginSet(pre_origin, pre_target)
    /\ \E c \in Clicked :
          /\ c \in destination_cells
          /\ c \notin departure_cells
          /\ c # pre_origin
          /\ target = c
    /\ origin = pre_origin

\* ------------------------------------------------------------------------
\* C5: a click on a wrong-role cell is rejected with the warning of the
\* role asked for and leaves both slots as they were; the execution ends
\* normally, so that the next click is accepted.
\* ------------------------------------------------------------------------
C5_WrongRoleRejected ==
    last_action = "Click" =>
        \A c \in Clicked :
            /\ (IsEmpty(pre_origin, pre_target) /\ c \notin departure_cells) =>
                  /\ origin = None /\ target = None
                  /\ warning = "departure"
                  /\ pc = "idle"
            /\ (IsOriginSet(pre_origin, pre_target) /\ c \notin destination_cells) =>
                  /\ origin = pre_origin /\ target = None
                  /\ warning = "destination"
                  /\ pc = "idle"

\* A click made in OriginSet on a cell that is no destination cell, rejected
\* with the destination warning.
C5_Witness ==
    /\ last_action = "Click"
    /\ IsOriginSet(pre_origin, pre_target)
    /\ \E c \in Clicked : c \notin destination_cells
    /\ warning = "destination"
    /\ target = None

\* ------------------------------------------------------------------------
\* C6: a click made in Complete changes nothing: origin, target, the route
\* and the details panel stay as they were, no warning is shown, and the
\* execution ends normally (so the same holds for the next click).
\* ------------------------------------------------------------------------
C6_CompleteIgnoresClicks ==
    [][ (last_action' = "Click" /\ IsComplete(origin, target)) =>
            /\ origin' = origin
            /\ target' = target
            /\ route_row' = route_row
            /\ details' = details
            /\ warning' = "none"
            /\ pc' = "idle" ]_vars

\* A click made in Complete on a cell that is a destination cell and is
\* not the target.
C6_Witness ==
    /\ last_action = "Click"
    /\ IsComplete(pre_origin, pre_target)
    /\ \E c \in Clicked : c \in destination_cells /\ c # pre_target
    /\ target = pre_target

\* ------------------------------------------------------------------------
\* C7: Reset yields Empty from every state, and the selection is still
\* Empty, with no current route, when the execution started by the Reset
\* has ended (and until the next user event).
\* ------------------------------------------------------------------------
C7_ResetYieldsEmpty ==
    event = "reset" =>
        /\ IsEmpty(origin, target)
        /\ pc = "idle" => route_row = NoRoute

\* The execution started by a Reset pressed in Complete has ended.
C7_Witness ==
    /\ event = "reset"
    /\ last_action = "Rerun"
    /\ pc = "idle"
    /\ IsComplete(pre_origin, pre_target)
    /\ IsEmpty(origin, target)

\* ------------------------------------------------------------------------
\* C8: when an execution has ended with both slots set, the current route
\* is the entry of the route table keyed by the ordered pair
\* (origin, target), and None when the table has no such entry.
\* ------------------------------------------------------------------------
C8_ExactPairLookup ==
    (pc = "idle" /\ IsComplete(origin, target)) =>
        route_row = IF KeyInIndex(<< origin, target >>)
                    THEN Loc(<< origin, target >>)
                    ELSE NoRoute

\* ------------------------------------------------------------------------
\* C9: when an execution has ended in Complete and the lookup of
\* (origin, target) found no route, the panel shows something else than the
\* prompt it shows when no pair is selected.  Stated for the pairs the
\* lookup is made for (both ids truthy, lines 154-156).
\* ------------------------------------------------------------------------
C9_NoRoutePresented ==
    (pc = "idle" /\ IsComplete(origin, target)
        /\ Truthy(origin) /\ Truthy(target)
        /\ ~KeyInIndex(<< origin, target >>)) =>
        details # "prompt"

\* ------------------------------------------------------------------------
\* C10: one click is given to select once: the executions the program
\* starts itself (st.rerun) make no further select attempt for the click,
\* so that one click never takes the selection from Empty to Complete.
\* ------------------------------------------------------------------------
C10_OneSelectPerClick ==
    /\ attempts <= 1
    /\ event = "click" =>
          ~(IsEmpty(pre_origin, pre_target) /\ IsComplete(origin, target))

\* ------------------------------------------------------------------------
\* C11: a cell is a departure cell iff its value_wintering is strictly
\* positive and a destination cell iff its value_breeding is strictly
\* positive: both values positive puts it in both sets, both values zero
\* or negative in neither; and the handler accepts by these sets.
\* ------------------------------------------------------------------------
Positive(v) == v > 0

C11_RoleClassification ==
    /\ \A c \in Cells :
          /\ c \in departure_cells <=> Positive(df[c].value_wintering)
          /\ c \in destination_cells <=> Positive(df[c].value_breeding)
    /\ origin # None => Positive(df[origin].value_wintering)
    /\ target # None => Positive(df[target].value_breeding)

\* A table with a cell of both roles, a cell with zero values and a cell
\* with negative values; the first has been selected as origin and as
\* target.
C11_Witness ==
    /\ \E c \in Cells : df[c].value_wintering = 0 /\ df[c].value_breeding = 0
    /\ \E c \in Cells : df[c].value_wintering = -1 /\ df[c].value_breeding = -1
    /\ \E c \in Cells :
          /\ c \in departure_cells \cap destination_cells
          /\ origin = c
          /\ target = c

\* ------------------------------------------------------------------------
\* Geometry of the claims about the point resolution, by areas: a point is
\* in the closed polygon iff the triangles it spans with the edges add up
\* to the polygon, and strictly inside iff moreover none of them is flat.
\* ------------------------------------------------------------------------
Abs(x) == IF x < 0 THEN -x ELSE x

EdgeEnd(ring, i) == ring[IF i = Len(ring) THEN 1 ELSE i + 1]

\* Twice the signed area of the triangle a, b, p.
Twice(a, b, p) == (b[1] - a[1]) * (p[2] - a[2]) - (b[2] - a[2]) * (p[1] - a[1])

RECURSIVE FanArea(_, _, _)
FanArea(ring, p, n) ==
    IF n = 0 THEN 0
    ELSE Abs(Twice(ring[n], EdgeEnd(ring, n), p)) + FanArea(ring, p, n - 1)

RECURSIVE Shoelace(_, _)
Shoelace(ring, n) ==
    IF n = 0 THEN 0
    ELSE ring[n][1] * EdgeEnd(ring, n)[2] - EdgeEnd(ring, n)[1] * ring[n][2]
         + Shoelace(ring, n - 1)

InPolygon(ring, p) == FanArea(ring, p, Len(ring)) = Abs(Shoelace(ring, Len(ring)))

StrictlyInside(ring, p) ==
    /\ InPolygon(ring, p)
    /\ \A i \in DOMAIN ring : Twice(ring[i], EdgeEnd(ring, i), p) # 0

\* The cells whose polygon has p strictly inside; the cells whose closed
\* polygon holds p.
CellsAround(p) == { c \in Cells : StrictlyInside(Geometry(c), p) }
CellsTouching(p) == { c \in Cells : InPolygon(Geometry(c), p) }

\* ------------------------------------------------------------------------
\* C12: a click at a point strictly inside exactly one cell's polygon
\* resolves to that cell: the rows hit are that cell alone, and in Empty
\* (every cell being a departure cell) that cell becomes the origin.
\* ------------------------------------------------------------------------
C12_PointResolvesToItsCell ==
    (last_action = "Click" /\ last_clicked # NoClick) =>
        \A c \in Cells :
            CellsAround(last_clicked) = {c} =>
                /\ Clicked = {c}
                /\ IsEmpty(pre_origin, pre_target) => origin = c

\* A click in Empty at a point inside one cell and in the envelope of
\* another: the coarse filter kept both, the exact filter one.
C12_Witness ==
    /\ last_action = "Click"
    /\ last_clicked # NoClick
    /\ IsEmpty(pre_origin, pre_target)
    /\ \E c \in Cells :
          /\ CellsAround(last_clicked) = {c}
          /\ sindex_intersection(last_clicked) # {c}
          /\ origin = c

\* ------------------------------------------------------------------------
\* C13: a click at a point outside every cell's polygon resolves to no
\* cell, and in every selection state it changes neither slot, shows no
\* warning and lets the execution end normally.
\* ------------------------------------------------------------------------
C13_OutsideClickIsEmptyResult ==
    (last_action = "Click" /\ last_clicked # NoClick
        /\ CellsTouching(last_clicked) = {}) =>
        /\ Clicked = {}
        /\ origin = pre_origin
        /\ target = pre_target
        /\ warning = "none"
        /\ pc = "idle"

\* Such a click, made in Complete.
C13_Witness ==
    /\ last_action = "Click"
    /\ last_clicked # NoClick
    /\ CellsTouching(last_clicked) = {}
    /\ IsComplete(pre_origin, pre_target)
    /\ IsComplete(origin, target)

\* ------------------------------------------------------------------------
\* The route lookup on tables with repeated keys and distinguishable records
\* ------------------------------------------------------------------------
MaxRecords == 2

LookupCells == {1, 2}
LookupPaths == {1, 2}
LookupRecords ==
    [departure_cell : LookupCells, destination_cell : LookupCells,
     path : LookupPaths]

\* Every cell has both roles, so every key of LookupRecords can be selected.
InitLookup ==
    /\ df = [c \in Cells |-> [value_wintering |-> 1, value_breeding |-> 1]]
    /\ routes_idx \in SeqsUpTo(LookupRecords, MaxRecords)
    /\ InitSession

SpecLookup == InitLookup /\ [][Next]_vars

\* The last input record with the key.
LastRecord(key) ==
    LET at == { i \in DOMAIN routes_idx : IndexKey(routes_idx[i]) = key }
    IN  routes_idx[CHOOSE i \in at : \A j \in at : j <= i]

\* ------------------------------------------------------------------------
\* C14: for a key present in the input route records, the lookup returns a
\* single record, equal to the input record with that key and to the last
\* of them when several input records have the key, and the panel shows it.
\* ------------------------------------------------------------------------
C14_LookupRoundTrip ==
    (pc = "idle" /\ Truthy(origin) /\ Truthy(target)
        /\ KeyInIndex(<< origin, target >>)) =>
        /\ route_row = << LastRecord(<< origin, target >>) >>
        /\ details = "dataframe"

\* ------------------------------------------------------------------------
\* C15: the slots change only in a step that is Reset or a click on a cell
\* that select accepts; toggling the grid checkbox leaves both slots as they
\* were; no step changes the cell table, the role sets or the route table.
\* ------------------------------------------------------------------------
Accepted(point, o, t) ==
    \E cell \in hits[point] : select(cell, o, t).rerun

C16_SlotsHoldTheirRole ==
    /\ origin \in departure_cells \cup {None}
    /\ target \in destination_cells \cup {None}
    /\ route_row # NoRoute =>
           \A i \in DOMAIN route_row :
               /\ route_row[i].departure_cell \in departure_cells
               /\ route_row[i].destination_cell \in destination_cells

\* A complete pair whose lookup found a route, in a table where the cells'
\* roles differ: the origin is no destination cell, the target no departure
\* cell.
C16_Witness ==
    /\ pc = "idle"
    /\ IsComplete(origin, target)
    /\ origin \notin destination_cells
    /\ target \notin departure_cells
    /\ route_row # NoRoute

\* ------------------------------------------------------------------------
\* C17: for every cell id, the falsy ones included, when an execution has
\* ended with both slots set the route lookup for (origin, target) has been
\* made (the condition of line 154 held, which is truthiness of both slots)
\* and the map shows the origin in green and the target in red.
\* ------------------------------------------------------------------------
C17_DisplayAgreesWithSelection ==
    (pc = "idle" /\ IsComplete(origin, target)) =>
        /\ Truthy(origin) /\ Truthy(target)
        /\ map_key.green = origin
        /\ map_key.red = target

\* ------------------------------------------------------------------------
\* Executions requested by st.rerun() are run: Streamlit starts the requested
\* execution as soon as the requesting one has stopped.
\* ------------------------------------------------------------------------
SpecFair == Init /\ [][Next]_vars /\ WF_vars(Rerun)

\* Every requested rerun is followed by an execution that requests none.
RerunChainEnds == [](pc = "rerun" => <>(pc = "idle"))

\* ------------------------------------------------------------------------
\* C18 as stated: the chain of reruns started by one click or one Reset
\* press ends, and a rerun is requested only by a step in which a selection
\* slot changes.
\* ------------------------------------------------------------------------
C18_RerunOnlyOnChange ==
    /\ RerunChainEnds
    /\ [][pc' = "rerun" => (origin' # origin \/ target' # target)]_vars

\* ------------------------------------------------------------------------
\* C18, amended: the chain of reruns started by one click or one Reset press
\* ends; a rerun is requested only by a step in which a selection slot
\* changes or by Reset, which requests one on every press, and the execution
\* that follows a Reset requests none.
\* ------------------------------------------------------------------------
C18_RerunChainTerminates ==
    /\ RerunChainEnds
    /\ [][ /\ pc' = "rerun" =>
                \/ last_action' = "Reset"
                \/ origin' # origin
                \/ target' # target
           /\ (last_action = "Reset" /\ pc = "rerun") => pc' = "idle" ]_vars

\* The chain started by a Reset press in Empty has ended: a rerun was
\* requested and run although no slot changed.
C18_Witness ==
    /\ event = "reset"
    /\ last_action = "Rerun"
    /\ pc = "idle"
    /\ IsEmpty(pre_origin, pre_target)
    /\ IsEmpty(origin, target)

====
